---- MODULE Spec2Model ----
(***************************************************************************)
(* Model of the openbankingorgukacco command line client:                  *)
(*   src/src/config.js  the settings store (token, expiry)                 *)
(*   src/src/api.js     the API client (apiRequest, handleApiError, the    *)
(*                      16 read operations)                                *)
(*   src/src/index.js   the command dispatcher (config set/show/clear and  *)
(*                      the 16 read subcommands)                           *)
(* One process runs one subcommand.  The settings store outlives the       *)
(* process; everything else is per invocation.  A read subcommand blocks   *)
(* once, on the axios call, and the remote's answer is the environment's   *)
(* choice.                                                                 *)
(***************************************************************************)
EXTENDS Integers, Sequences, FiniteSets, TLC

VARIABLES
  store,      \* the settings file: [accessToken, tokenExpiry]
  now,        \* Date.now(), milliseconds
  pc,         \* "idle" (no process), "awaiting" (blocked in axios), "exited"
  inv,        \* the argv of the running / exited process
  request,    \* the axios config of the call in flight / last made, or NoRequest
  requests,   \* axios calls made by this process
  response,   \* what the remote answered to this process, or NoResponse
  opResult,   \* what the API operation returned or threw, or NoResult
  writes,     \* settings-store writes made by this process
  stdout,     \* lines written to stdout by this process
  stderr,     \* lines written to stderr by this process
  exitCode    \* Running while the process runs, then 0 or 1

vars == <<store, now, pc, inv, request, requests, response, opResult, writes,
          stdout, stderr, exitCode>>

----------------------------------------------------------------------------
(* Bounds of the model *)

\* the clock runs from 0 to MaxNow milliseconds
MaxNow == 2

\* the largest number of rows in a response envelope's array
MaxRows == 1

----------------------------------------------------------------------------
(* JavaScript values *)

\* undefined: an option that was not given, a field a record does not have
Undefined == "<undefined>"

\* marks a field whose value is a nested object (Amount: {Amount, Currency})
Object == "<object>"

\* truthiness of a string-or-undefined value: '' and undefined are falsy
Truthy(v) == v # Undefined /\ v # ""

\* a || b on string-or-undefined values
Or(a, b) == IF Truthy(a) THEN a ELSE b

\* a JavaScript number is [nan |-> BOOLEAN, n |-> Int]; NaN carries n = 0
Num(n) == [nan |-> FALSE, n |-> n]
NaN == [nan |-> TRUE, n |-> 0]

\* truthiness of a number: 0 and NaN are falsy
TruthyNum(x) == ~x.nan /\ x.n # 0

\* x > y on numbers: every comparison with NaN is false
Gt(x, y) == ~x.nan /\ ~y.nan /\ x.n > y.n

Digits == <<"0", "1", "2", "3", "4", "5", "6", "7", "8", "9">>

IsDigit(c) == \E d \in 1..10 : Digits[d] = c

DigitVal(c) == (CHOOSE d \in 1..10 : Digits[d] = c) - 1

\* the longest prefix of s made of digits
RECURSIVE DigitPrefix(_)
DigitPrefix(s) ==
  IF s = <<>> \/ ~IsDigit(Head(s)) THEN <<>>
  ELSE <<Head(s)>> \o DigitPrefix(Tail(s))

RECURSIVE DecimalValue(_)
DecimalValue(ds) ==
  IF ds = <<>> THEN 0
  ELSE 10 * DecimalValue(SubSeq(ds, 1, Len(ds) - 1)) + DigitVal(ds[Len(ds)])

RECURSIVE TrimLeft(_)
TrimLeft(s) == IF s # <<>> /\ Head(s) = " " THEN TrimLeft(Tail(s)) ELSE s

\* parseInt(text) with no radix, on decimal text: leading blanks are skipped,
\* one sign is read, then digits up to the first other character; NaN when
\* there is no digit.  text is a sequence of one-character strings.
ParseInt(text) ==
  LET t == TrimLeft(text)
      neg == t # <<>> /\ Head(t) = "-"
      body == IF t # <<>> /\ Head(t) \in {"-", "+"} THEN Tail(t) ELSE t
      ds == DigitPrefix(body)
  IN IF ds = <<>> THEN NaN
     ELSE Num(IF neg THEN 0 - DecimalValue(ds) ELSE DecimalValue(ds))

----------------------------------------------------------------------------
(* Settings store: src/src/config.js *)

\* the schema's defaults
DefaultStore == [accessToken |-> "", tokenExpiry |-> Num(0)]

\* the schema check conf runs on every write: accessToken is a string,
\* tokenExpiry a number (NaN is not a number for the validator)
SchemaAccepts(key, value) ==
  IF key = "tokenExpiry" THEN ~value.nan ELSE TRUE

getConfig(s, key) == s[key]

setConfig_Replace(s, key, value) == [DefaultStore EXCEPT ![key] = value]

\* the store after config.set(key, value), when the schema accepts the value
setConfig(s, key, value) == [s EXCEPT ![key] = value]

clearConfig_TokenOnly(s) == [s EXCEPT !.accessToken = ""]

clearConfig(s) == DefaultStore

isConfigured_WrongKey(s) == TruthyNum(getConfig(s, "tokenExpiry"))

isConfigured(s) == Truthy(getConfig(s, "accessToken"))

\* the validity margin of hasValidToken, milliseconds
Margin == 60000

hasValidToken_Ge(s, t) ==
  IF ~Truthy(getConfig(s, "accessToken")) THEN FALSE
  ELSE LET e == getConfig(s, "tokenExpiry")
       IN ~e.nan /\ e.n >= t + Margin

hasValidToken(s, t) ==
  LET accessToken == getConfig(s, "accessToken")
      tokenExpiry == getConfig(s, "tokenExpiry")
  IN IF ~Truthy(accessToken) THEN FALSE
     ELSE Gt(tokenExpiry, Num(t + Margin))

----------------------------------------------------------------------------
(* Remote records and response bodies *)

\* every field name the dispatcher reads from a remote record; the fields of
\* the nested Amount object are written Amount.Amount and Amount.Currency
Keys ==
  {"AccountId", "Nickname", "Currency", "AccountType", "AccountSubType",
   "Type", "Amount", "Amount.Amount", "Amount.Currency",
   "CreditDebitIndicator", "DateTime", "TransactionId", "BookingDateTime",
   "Status", "BeneficiaryId", "Reference", "DirectDebitId",
   "MandateIdentification", "DirectDebitStatusCode", "StandingOrderId",
   "Frequency", "StatementId", "StartDateTime", "EndDateTime"}

\* the order in which a record's fields are serialised
KeyOrder ==
  <<"AccountId", "Nickname", "Currency", "AccountType", "AccountSubType",
    "Type", "Amount", "CreditDebitIndicator", "DateTime", "TransactionId",
    "BookingDateTime", "Status", "BeneficiaryId", "Reference",
    "DirectDebitId", "MandateIdentification", "DirectDebitStatusCode",
    "StandingOrderId", "Frequency", "StatementId", "StartDateTime",
    "EndDateTime">>

\* a record with every field
RowFull ==
  [k \in Keys |->
     CASE k = "AccountId" -> "acc-22289"
       [] k = "Nickname" -> "Bills"
       [] k = "Currency" -> "GBP"
       [] k = "AccountType" -> "Personal"
       [] k = "AccountSubType" -> "CurrentAccount"
       [] k = "Type" -> "InterimAvailable"
       [] k = "Amount" -> Object
       [] k = "Amount.Amount" -> "1230.00"
       [] k = "Amount.Currency" -> "GBP"
       [] k = "CreditDebitIndicator" -> "Credit"
       [] k = "DateTime" -> "2024-01-05T10:43:07+00:00"
       [] k = "TransactionId" -> "tx-000000000123"
       [] k = "BookingDateTime" -> "2024-01-03T00:00:00+00:00"
       [] k = "Status" -> "Booked"
       [] k = "BeneficiaryId" -> "Ben1"
       [] k = "Reference" -> "Towbar Club"
       [] k = "DirectDebitId" -> "DD03"
       [] k = "MandateIdentification" -> "Caravanners"
       [] k = "DirectDebitStatusCode" -> "Active"
       [] k = "StandingOrderId" -> "Ben3"
       [] k = "Frequency" -> "EvryWorkgDay"
       [] k = "StatementId" -> "8sfhke-sifhkeuf-97813"
       [] k = "StartDateTime" -> "2024-01-01T00:00:00+00:00"
       [] k = "EndDateTime" -> "2024-01-31T23:59:59+00:00"]

\* a record with no field at all
RowBare == [k \in Keys |-> Undefined]

\* a record whose Amount object is there and empty
RowNoAmount ==
  [RowFull EXCEPT !["Amount.Amount"] = Undefined,
                  !["Amount.Currency"] = Undefined]

Rows == {RowFull, RowBare, RowNoAmount}

RowSeqs == UNION {[1..n -> Rows] : n \in 0..MaxRows}

\* a 2xx body { Data: { <Plural>: [...] } }, <Plural> the name the operation
\* reads (Account, Balance, Transaction, Beneficiary, DirectDebit,
\* StandingOrder, Statement): Data may be missing, and so may the array
\* under that name
Envelopes ==
  {[hasData |-> FALSE, hasArr |-> FALSE, arr |-> <<>>],
   [hasData |-> TRUE, hasArr |-> FALSE, arr |-> <<>>]}
  \cup {[hasData |-> TRUE, hasArr |-> TRUE, arr |-> a] : a \in RowSeqs}

NoEnvelope == [hasData |-> FALSE, hasArr |-> FALSE, arr |-> <<>>]

\* a non-2xx body: { message?, error? }
ErrorBodies ==
  {[message |-> m, error |-> e] :
     m \in {Undefined, "invalid request"}, e \in {Undefined, "server_error"}}

NoErrorBody == [message |-> Undefined, error |-> Undefined]

OkStatuses == {200, 206}

ErrorStatuses == {400, 401, 403, 404, 429, 500}

\* JSON values handed to the renderer: null, one record, an array of records
JNull == <<"null">>

JObj(row) == <<"object", row>>

JArr(rows) == <<"array", rows>>

----------------------------------------------------------------------------
(* API client: src/src/api.js *)

BASE_URL == "https://api.openbanking.org.uk/open-banking/v3.1/aisp"

ReadCmds ==
  {"accounts list", "accounts get", "accounts balances",
   "accounts transactions", "balances list", "transactions list",
   "transactions get", "beneficiaries list", "beneficiaries account",
   "direct-debits list", "direct-debits account", "standing-orders list",
   "standing-orders account", "statements list", "statements get",
   "statements transactions"}

ConfigCmds == {"config set", "config show", "config clear"}

\* the API client operation each read subcommand calls
ApiOp(cmd) ==
  CASE cmd = "accounts list" -> "listAccounts"
    [] cmd = "accounts get" -> "getAccount"
    [] cmd = "accounts balances" -> "getAccountBalances"
    [] cmd = "accounts transactions" -> "getAccountTransactions"
    [] cmd = "balances list" -> "listBalances"
    [] cmd = "transactions list" -> "listTransactions"
    [] cmd = "transactions get" -> "getTransaction"
    [] cmd = "beneficiaries list" -> "listBeneficiaries"
    [] cmd = "beneficiaries account" -> "getAccountBeneficiaries"
    [] cmd = "direct-debits list" -> "listDirectDebits"
    [] cmd = "direct-debits account" -> "getAccountDirectDebits"
    [] cmd = "standing-orders list" -> "listStandingOrders"
    [] cmd = "standing-orders account" -> "getAccountStandingOrders"
    [] cmd = "statements list" -> "listStatements"
    [] cmd = "statements get" -> "getStatement"
    [] cmd = "statements transactions" -> "getStatementTransactions"

\* the endpoint of each operation, as path segments after BASE_URL
Endpoint(op, id1, id2) ==
  CASE op = "listAccounts" -> <<"accounts">>
    [] op = "getAccount" -> <<"accounts", id1>>
    [] op = "getAccountBalances" -> <<"accounts", id1, "balances">>
    [] op = "getAccountTransactions" -> <<"accounts", id1, "transactions">>
    [] op = "listBalances" -> <<"balances">>
    [] op = "listTransactions" -> <<"transactions">>
    [] op = "getTransaction" -> <<"accounts", id1, "transactions", id2>>
    [] op = "listBeneficiaries" -> <<"beneficiaries">>
    [] op = "getAccountBeneficiaries" -> <<"accounts", id1, "beneficiaries">>
    [] op = "listDirectDebits" -> <<"direct-debits">>
    [] op = "getAccountDirectDebits" -> <<"accounts", id1, "direct-debits">>
    [] op = "listStandingOrders" -> <<"standing-orders">>
    [] op = "getAccountStandingOrders" ->
         <<"accounts", id1, "standing-orders">>
    [] op = "listStatements" -> <<"accounts", id1, "statements">>
    [] op = "getStatement" -> <<"accounts", id1, "statements", id2>>
    [] op = "getStatementTransactions" ->
         <<"accounts", id1, "statements", id2, "transactions">>

\* the operations that return the first element of the array, or null
SingularOps == {"getAccount", "getTransaction", "getStatement"}

\* the operations that take { fromDate, toDate }
DatedOps == {"getAccountTransactions", "listTransactions"}

\* the params object of a dated operation, as a set of <<name, value>>:
\*   if (fromDate) params.fromBookingDateTime = fromDate;
\*   if (toDate) params.toBookingDateTime = toDate;
DateParams_ToAsFrom(fromDate, toDate) ==
  (IF Truthy(fromDate) THEN {<<"fromBookingDateTime", fromDate>>} ELSE {})
  \cup (IF Truthy(fromDate) THEN {<<"toBookingDateTime", toDate>>} ELSE {})

DateParams(fromDate, toDate) ==
  (IF Truthy(fromDate) THEN {<<"fromBookingDateTime", fromDate>>} ELSE {})
  \cup (IF Truthy(toDate) THEN {<<"toBookingDateTime", toDate>>} ELSE {})

NoRequest ==
  [method |-> "", url |-> <<>>, authorization |-> <<>>, hasParams |-> FALSE,
   params |-> {}]

apiRequestThrows_Never(s) == FALSE

\* apiRequest throws before building the request when no token is stored
apiRequestThrows(s) == ~Truthy(getConfig(s, "accessToken"))

apiRequestConfig_NoAuth(s, method, endpoint, hasParams, params) ==
  [method |-> method,
   url |-> <<BASE_URL>> \o endpoint,
   authorization |-> <<>>,
   hasParams |-> hasParams,
   params |-> IF hasParams THEN params ELSE {}]

\* the axios config apiRequest builds: config.params is set only when the
\* caller passed a params object (the dated operations always pass one)
apiRequestConfig(s, method, endpoint, hasParams, params) ==
  [method |-> method,
   url |-> <<BASE_URL>> \o endpoint,
   authorization |-> <<"Bearer", getConfig(s, "accessToken")>>,
   hasParams |-> hasParams,
   params |-> IF hasParams THEN params ELSE {}]

\* the request an operation sends for the given arguments
OpRequest(s, op, id1, id2, fromDate, toDate) ==
  apiRequestConfig(s, "GET", Endpoint(op, id1, id2), op \in DatedOps,
                   IF op \in DatedOps THEN DateParams(fromDate, toDate)
                   ELSE {})

Unwrap_NoDefault(op, data) ==
  IF op \in SingularOps
  THEN IF data.hasData /\ data.hasArr /\ Len(data.arr) > 0
       THEN JObj(data.arr[1]) ELSE JNull
  ELSE IF data.hasData /\ data.hasArr THEN JArr(data.arr) ELSE JNull

\* data.Data?.<Plural> || []      (list operations)
\* data.Data?.<Plural>?.[0] || null   (singular operations)
Unwrap(op, data) ==
  IF op \in SingularOps
  THEN IF data.hasData /\ data.hasArr /\ Len(data.arr) > 0
       THEN JObj(data.arr[1]) ELSE JNull
  ELSE IF data.hasData /\ data.hasArr THEN JArr(data.arr) ELSE JArr(<<>>)

\* error messages
MsgNotConfiguredApi ==
  <<"Access token not configured. Run: openbankingorgukacco config set --token <token>">>

MsgAuthFailed == <<"Authentication failed. Check your access token.">>

MsgForbidden == <<"Access forbidden. Check your API permissions.">>

MsgNotFound == <<"Resource not found.">>

MsgRateLimit == <<"Rate limit exceeded. Please wait before retrying.">>

MsgNoResponse ==
  <<"No response from Open Banking API. Check your internet connection.">>

\* the message of an error axios raised before the request left the process
MsgSetup == <<"Invalid URL">>

\* JSON.stringify of a non-2xx body, as tokens
StringifyErrorBody(data) ==
  <<"{">>
  \o (IF data.message # Undefined THEN <<"message", data.message>> ELSE <<>>)
  \o (IF data.error # Undefined THEN <<"error", data.error>> ELSE <<>>)
  \o <<"}">>

\* data?.message || data?.error || JSON.stringify(data)
RemoteMessage(data) ==
  IF Truthy(data.message) THEN <<data.message>>
  ELSE IF Truthy(data.error) THEN <<data.error>>
  ELSE StringifyErrorBody(data)

MsgApiError(status, data) == <<"API Error", status, RemoteMessage(data)>>

\* the message of the error handleApiError throws for an axios error:
\* kind "response" (error.response set), "request" (only error.request set),
\* "setup" (neither)
handleApiError_429Generic(error) ==
  IF error.kind = "response"
  THEN CASE error.status = 401 -> MsgAuthFailed
         [] error.status = 403 -> MsgForbidden
         [] error.status = 404 -> MsgNotFound
         [] OTHER -> MsgApiError(error.status, error.err)
  ELSE IF error.kind = "request" THEN MsgNoResponse
  ELSE error.message

handleApiError_SetupAsNoResponse(error) ==
  IF error.kind = "response"
  THEN CASE error.status = 401 -> MsgAuthFailed
         [] error.status = 403 -> MsgForbidden
         [] error.status = 404 -> MsgNotFound
         [] error.status = 429 -> MsgRateLimit
         [] OTHER -> MsgApiError(error.status, error.err)
  ELSE MsgNoResponse

handleApiError(error) ==
  IF error.kind = "response"
  THEN CASE error.status = 401 -> MsgAuthFailed
         [] error.status = 403 -> MsgForbidden
         [] error.status = 404 -> MsgNotFound
         [] error.status = 429 -> MsgRateLimit
         [] OTHER -> MsgApiError(error.status, error.err)
  ELSE IF error.kind = "request" THEN MsgNoResponse
  ELSE error.message

----------------------------------------------------------------------------
(* Command dispatcher, rendering: src/src/index.js *)

Running == -1

\* printError(message): one line on stderr
ErrLine(msg) == <<"error", msg>>

\* printSuccess(message): one line on stdout
OkLine(text) == <<"success", text>>

\* v.substring(0, 10) on the strings the remote records carry (every other
\* string of the model is at most 10 characters long)
Sub10(v) ==
  CASE v = "tx-000000000123" -> "tx-0000000"
    [] v = "2024-01-03T00:00:00+00:00" -> "2024-01-03"
    [] v = "2024-01-01T00:00:00+00:00" -> "2024-01-01"
    [] v = "2024-01-31T23:59:59+00:00" -> "2024-01-31"
    [] v = "2024-01-05T10:43:07+00:00" -> "2024-01-05"
    [] v = "8sfhke-sifhkeuf-97813" -> "8sfhke-sif"
    [] v = "InterimAvailable" -> "InterimAva"
    [] v = "CurrentAccount" -> "CurrentAcc"
    [] v = "Towbar Club" -> "Towbar Clu"
    [] v = "Caravanners" -> "Caravanner"
    [] v = "EvryWorkgDay" -> "EvryWorkgD"
    [] OTHER -> v

Col(key, label, fmt) == [key |-> key, label |-> label, fmt |-> fmt]

\* the columns each list subcommand passes to printTable; fmt names the
\* column's format function ("plain" when it has none)
Columns(cmd) ==
  CASE cmd = "accounts list" ->
         <<Col("AccountId", "ID", "plain"),
           Col("Nickname", "Nickname", "plain"),
           Col("Currency", "Currency", "plain"),
           Col("AccountType", "Type", "plain"),
           Col("AccountSubType", "SubType", "plain")>>
    [] cmd = "accounts balances" ->
         <<Col("Type", "Type", "plain"),
           Col("Amount", "Amount", "amount"),
           Col("CreditDebitIndicator", "Indicator", "plain"),
           Col("DateTime", "Date Time", "plain")>>
    [] cmd = "accounts transactions" ->
         <<Col("TransactionId", "ID", "id10"),
           Col("BookingDateTime", "Date", "date10"),
           Col("Amount", "Amount", "amount"),
           Col("CreditDebitIndicator", "Type", "plain"),
           Col("Status", "Status", "plain")>>
    [] cmd = "balances list" ->
         <<Col("AccountId", "Account ID", "plain"),
           Col("Type", "Type", "plain"),
           Col("Amount", "Amount", "amount"),
           Col("CreditDebitIndicator", "Indicator", "plain")>>
    [] cmd = "transactions list" ->
         <<Col("AccountId", "Account", "plain"),
           Col("TransactionId", "ID", "id10"),
           Col("BookingDateTime", "Date", "date10"),
           Col("Amount", "Amount", "amount"),
           Col("CreditDebitIndicator", "Type", "plain")>>
    [] cmd = "beneficiaries list" ->
         <<Col("AccountId", "Account", "plain"),
           Col("BeneficiaryId", "ID", "plain"),
           Col("Reference", "Reference", "plain")>>
    [] cmd = "beneficiaries account" ->
         <<Col("BeneficiaryId", "ID", "plain"),
           Col("Reference", "Reference", "plain")>>
    [] cmd = "direct-debits list" ->
         <<Col("AccountId", "Account", "plain"),
           Col("DirectDebitId", "ID", "plain"),
           Col("MandateIdentification", "Mandate", "plain"),
           Col("DirectDebitStatusCode", "Status", "plain")>>
    [] cmd = "direct-debits account" ->
         <<Col("DirectDebitId", "ID", "plain"),
           Col("MandateIdentification", "Mandate", "plain"),
           Col("DirectDebitStatusCode", "Status", "plain")>>
    [] cmd = "standing-orders list" ->
         <<Col("AccountId", "Account", "plain"),
           Col("StandingOrderId", "ID", "plain"),
           Col("Frequency", "Frequency", "plain"),
           Col("Reference", "Reference", "plain")>>
    [] cmd = "standing-orders account" ->
         <<Col("StandingOrderId", "ID", "plain"),
           Col("Frequency", "Frequency", "plain"),
           Col("Reference", "Reference", "plain")>>
    [] cmd = "statements list" ->
         <<Col("StatementId", "ID", "plain"),
           Col("Type", "Type", "plain"),
           Col("StartDateTime", "Start", "date10"),
           Col("EndDateTime", "End", "date10")>>
    [] cmd = "statements transactions" ->
         <<Col("TransactionId", "ID", "id10"),
           Col("BookingDateTime", "Date", "date10"),
           Col("Amount", "Amount", "amount"),
           Col("CreditDebitIndicator", "Type", "plain")>>

\* `${v?.Amount || '0.00'} ${v?.Currency || ''}` for v = row.Amount
AmountText(row) ==
  IF row["Amount"] = Undefined THEN <<"0.00", "">>
  ELSE <<Or(row["Amount.Amount"], "0.00"), Or(row["Amount.Currency"], "")>>

\* String(col.format ? col.format(row[col.key], row) : (row[col.key] ?? '')),
\* as the pieces the text is made of
Cell(col, row) ==
  LET v == row[col.key]
  IN CASE col.fmt = "amount" -> AmountText(row)
       [] col.fmt = "id10" ->
            <<IF v = Undefined THEN "undefined" ELSE Sub10(v), "...">>
       [] col.fmt = "date10" ->
            <<IF v = Undefined THEN "" ELSE Or(Sub10(v), "")>>
       [] OTHER -> <<IF v = Undefined THEN "" ELSE v>>

\* printTable(data, columns), as the lines it writes.  Column widths only
\* pad the cells with blanks (every value of the model is shorter than the
\* 40-character cap), so a line is given by its cells.
printTable_EmptyTable(data, columns) ==
  <<<<"header", [i \in 1..Len(columns) |-> columns[i].label]>>, <<"rule">>>>
  \o [r \in 1..Len(data) |->
        <<"row", [i \in 1..Len(columns) |-> Cell(columns[i], data[r])]>>]
  \o <<<<"count", Len(data)>>>>

printTable(data, columns) ==
  IF Len(data) = 0 THEN <<<<"notice", "No results found.">>>>
  ELSE <<<<"header", [i \in 1..Len(columns) |-> columns[i].label]>>,
         <<"rule">>>>
       \o [r \in 1..Len(data) |->
             <<"row", [i \in 1..Len(columns) |-> Cell(columns[i], data[r])]>>]
       \o <<<<"count", Len(data)>>>>

\* JSON.stringify of one record, as tokens: the fields the record has, in
\* order, the nested Amount object with the fields it has
RECURSIVE StringifyFields(_, _, _)
StringifyFields(row, i, amountDefault) ==
  IF i > Len(KeyOrder) THEN <<>>
  ELSE LET k == KeyOrder[i]
           here ==
             IF row[k] = Undefined THEN <<>>
             ELSE IF k = "Amount"
             THEN <<k, "{">>
                  \o (IF row["Amount.Amount"] # Undefined
                      THEN <<"Amount", row["Amount.Amount"]>>
                      ELSE IF amountDefault THEN <<"Amount", "0.00">>
                      ELSE <<>>)
                  \o (IF row["Amount.Currency"] # Undefined
                      THEN <<"Currency", row["Amount.Currency"]>>
                      ELSE <<>>)
                  \o <<"}">>
             ELSE <<k, row[k]>>
       IN here \o StringifyFields(row, i + 1, amountDefault)

RECURSIVE StringifyRows(_, _)
StringifyRows(rows, amountDefault) ==
  IF rows = <<>> THEN <<>>
  ELSE <<"{">> \o StringifyFields(Head(rows), 1, amountDefault) \o <<"}">>
       \o StringifyRows(Tail(rows), amountDefault)

\* JSON.stringify(value, null, 2) of what an API operation returned
JsonStringify(value) ==
  CASE value[1] = "null" -> <<"null">>
    [] value[1] = "object" ->
         <<"{">> \o StringifyFields(value[2], 1, FALSE) \o <<"}">>
    [] value[1] = "array" ->
         <<"[">> \o StringifyRows(value[2], FALSE) \o <<"]">>

printJson_AmountDefault(data) ==
  <<<<"json",
      CASE data[1] = "null" -> <<"null">>
        [] data[1] = "object" ->
             <<"{">> \o StringifyFields(data[2], 1, TRUE) \o <<"}">>
        [] data[1] = "array" ->
             <<"[">> \o StringifyRows(data[2], TRUE) \o <<"]">>>>>>

\* printJson(data): one console.log of the serialised value
printJson(data) == <<<<"json", JsonStringify(data)>>>>

\* reading a property of null throws a TypeError
MsgTypeError == <<"Cannot read properties of null">>

\* the detail view of a singular get subcommand, for a record that is there
DetailLines(cmd, row, id1, id2) ==
  CASE cmd = "accounts get" ->
         <<<<"title", "Account Details">>,
           <<"Account ID:", Or(row["AccountId"], id1)>>,
           <<"Nickname:", Or(row["Nickname"], "N/A")>>,
           <<"Currency:", Or(row["Currency"], "N/A")>>,
           <<"Type:", Or(row["AccountType"], "N/A")>>,
           <<"SubType:", Or(row["AccountSubType"], "N/A")>>>>
    [] cmd = "transactions get" ->
         <<<<"title", "Transaction Details">>,
           <<"Transaction ID:", Or(row["TransactionId"], id2)>>,
           <<"Account ID:", Or(row["AccountId"], id1)>>,
           <<"Amount:", AmountText(row)>>,
           <<"Type:", Or(row["CreditDebitIndicator"], "N/A")>>,
           <<"Status:", Or(row["Status"], "N/A")>>,
           <<"Booking Date:", Or(row["BookingDateTime"], "N/A")>>>>
    [] cmd = "statements get" ->
         <<<<"title", "Statement Details">>,
           <<"Statement ID:", Or(row["StatementId"], id2)>>,
           <<"Type:", Or(row["Type"], "N/A")>>,
           <<"Start Date:", Or(row["StartDateTime"], "N/A")>>,
           <<"End Date:", Or(row["EndDateTime"], "N/A")>>>>

\* what a read subcommand's action does with the value the API operation
\* returned: [out, err, code].  In the detail view the title is printed
\* before the first field of the record is read, and reading a field of
\* null throws inside the try block.
Render(cmd, json, result, id1, id2) ==
  IF json THEN [out |-> printJson(result), err |-> <<>>, code |-> 0]
  ELSE IF ApiOp(cmd) \in SingularOps
  THEN IF result[1] = "null"
       THEN [out |-> <<DetailLines(cmd, RowBare, id1, id2)[1]>>,
             err |-> <<ErrLine(MsgTypeError)>>, code |-> 1]
       ELSE [out |-> DetailLines(cmd, result[2], id1, id2), err |-> <<>>,
             code |-> 0]
  ELSE [out |-> printTable(result[2], Columns(cmd)), err |-> <<>>,
        code |-> 0]

\* requireAuth() lets the action go on
requireAuth_ValidToken(s, t) == hasValidToken(s, t)

requireAuth_NoCheck(s, t) == TRUE

requireAuth(s, t) == isConfigured(s)

MsgNotConfigured == <<"Access token not configured.">>

\* what requireAuth prints before process.exit(1)
GuidanceLines ==
  <<<<"text", "Run the following to configure:">>,
    <<"text", "  openbankingorgukacco config set --token <token>">>>>

----------------------------------------------------------------------------
(* Inputs *)

TokenOpts == {Undefined, "", "tokA", "tokB"}

NoExpiryOpt == [given |-> FALSE, text |-> <<>>]

\* --expiry texts: 0, 1 (in the past once the clock has passed it), values
\* around now + Margin, text with a trailing letter, text with no digit, ''
ExpiryTexts ==
  {<<"0">>, <<"1">>, <<"6", "0", "0", "0", "1">>,
   <<"6", "0", "0", "0", "2">>, <<"6", "0", "0", "0", "2", "x">>,
   <<"s", "o", "o", "n">>, <<>>}

ExpiryOpts ==
  {NoExpiryOpt} \cup {[given |-> TRUE, text |-> t] : t \in ExpiryTexts}

FromOpts == {Undefined, "", "2024-01-01"}

ToOpts == {Undefined, "", "2024-01-31"}

AccountIds == {"acc-22289"}

SubIds == {"id-7"}

\* the subcommands that take <account-id>, and those that take a second id
TakesId1 ==
  {c \in ReadCmds : Len(Endpoint(ApiOp(c), "a", "b")) > 1}

TakesId2 == {"transactions get", "statements get", "statements transactions"}

NoInv ==
  [cmd |-> "", id1 |-> Undefined, id2 |-> Undefined, json |-> FALSE,
   from |-> Undefined, to |-> Undefined, token |-> Undefined,
   expiry |-> NoExpiryOpt]

\* the command lines of the read subcommands that commander accepts
ReadInvs ==
  UNION {
    {[cmd |-> c, id1 |-> a, id2 |-> b, json |-> j, from |-> f, to |-> t,
      token |-> Undefined, expiry |-> NoExpiryOpt] :
       a \in (IF c \in TakesId1 THEN AccountIds ELSE {Undefined}),
       b \in (IF c \in TakesId2 THEN SubIds ELSE {Undefined}),
       j \in BOOLEAN,
       f \in (IF ApiOp(c) \in DatedOps THEN FromOpts ELSE {Undefined}),
       t \in (IF ApiOp(c) \in DatedOps THEN ToOpts ELSE {Undefined})} :
    c \in ReadCmds}

NoResponse ==
  [kind |-> "none", status |-> 0, body |-> NoEnvelope, err |-> NoErrorBody,
   message |-> <<>>]

\* the outcome of an API operation: nothing yet, a returned value, a thrown
\* error with its message
NoResult == [kind |-> "none", value |-> JNull, message |-> <<>>]

Returned(value) == [kind |-> "value", value |-> value, message |-> <<>>]

Thrown(message) == [kind |-> "throw", value |-> JNull, message |-> message]

----------------------------------------------------------------------------
(* The state machine *)

Init ==
  /\ store = DefaultStore
  /\ now = 0
  /\ pc = "idle"
  /\ inv = NoInv
  /\ request = NoRequest
  /\ requests = 0
  /\ response = NoResponse
  /\ opResult = NoResult
  /\ writes = 0
  /\ stdout = <<>>
  /\ stderr = <<>>
  /\ exitCode = Running

\* a new process can start when none is running
CanStart == pc = "idle"

\* the clock advances
Tick ==
  /\ now < MaxNow
  /\ now' = now + 1
  /\ UNCHANGED <<store, pc, inv, request, requests, response, opResult,
                 writes, stdout, stderr, exitCode>>

\* what the config set action does to the store and prints:
\* [store, writes, out, err, code]
ConfigSetEffect(s, token, expiry) ==
  LET s1 == IF Truthy(token) THEN setConfig(s, "accessToken", token) ELSE s
      w1 == IF Truthy(token) THEN 1 ELSE 0
      out1 == IF Truthy(token) THEN <<OkLine("Access token set")>> ELSE <<>>
      hasExpiry == expiry.given /\ expiry.text # <<>>
      value == ParseInt(expiry.text)
  IN IF hasExpiry /\ ~SchemaAccepts("tokenExpiry", value)
     THEN \* config.set throws; nothing catches it
          [store |-> s1, writes |-> w1, out |-> out1,
           err |-> <<<<"uncaught", <<"Config schema violation">>>>>>,
           code |-> 1]
     ELSE IF hasExpiry
     THEN [store |-> setConfig(s1, "tokenExpiry", value),
           writes |-> w1 + 1,
           out |-> out1 \o <<OkLine("Token expiry set")>>,
           err |-> <<>>, code |-> 0]
     ELSE IF ~Truthy(token)
     THEN [store |-> s1, writes |-> w1, out |-> out1,
           err |-> <<ErrLine(<<"No options provided. Use --token or --expiry">>)>>,
           code |-> 0]
     ELSE [store |-> s1, writes |-> w1, out |-> out1, err |-> <<>>,
           code |-> 0]

\* openbankingorgukacco config set [--token <token>] [--expiry <timestamp>]
ConfigSet(token, expiry) ==
  /\ CanStart
  /\ LET e == ConfigSetEffect(store, token, expiry)
     IN /\ store' = e.store
        /\ writes' = e.writes
        /\ stdout' = e.out
        /\ stderr' = e.err
        /\ exitCode' = e.code
  /\ inv' = [NoInv EXCEPT !.cmd = "config set", !.token = token,
                          !.expiry = expiry]
  /\ pc' = "exited"
  /\ request' = NoRequest
  /\ requests' = 0
  /\ response' = NoResponse
  /\ opResult' = NoResult
  /\ UNCHANGED now

\* what config show prints
ConfigShowLines(s, t) ==
  LET hasToken == Truthy(getConfig(s, "accessToken"))
      tokenExpiry == getConfig(s, "tokenExpiry")
  IN <<<<"title", "Configuration">>,
       <<"Access Token:", IF hasToken THEN "set" ELSE "not set">>>>
     \o (IF TruthyNum(tokenExpiry)
         THEN <<<<"Token Expiry:",
                  IF Gt(tokenExpiry, Num(t)) THEN "valid" ELSE "expired">>>>
         ELSE <<>>)
     \o <<<<"text", "">>>>

\* openbankingorgukacco config show
ConfigShow ==
  /\ CanStart
  /\ stdout' = ConfigShowLines(store, now)
  /\ stderr' = <<>>
  /\ exitCode' = 0
  /\ inv' = [NoInv EXCEPT !.cmd = "config show"]
  /\ pc' = "exited"
  /\ request' = NoRequest
  /\ requests' = 0
  /\ response' = NoResponse
  /\ opResult' = NoResult
  /\ writes' = 0
  /\ UNCHANGED <<store, now>>

ConfigClear_KeyByKey ==
  /\ CanStart
  /\ store' = clearConfig(store)
  /\ writes' = 2
  /\ stdout' = <<OkLine("Configuration cleared")>>
  /\ stderr' = <<>>
  /\ exitCode' = 0
  /\ inv' = [NoInv EXCEPT !.cmd = "config clear"]
  /\ pc' = "exited"
  /\ request' = NoRequest
  /\ requests' = 0
  /\ response' = NoResponse
  /\ opResult' = NoResult
  /\ UNCHANGED now

\* openbankingorgukacco config clear
ConfigClear ==
  /\ CanStart
  /\ store' = clearConfig(store)
  /\ writes' = 1
  /\ stdout' = <<OkLine("Configuration cleared")>>
  /\ stderr' = <<>>
  /\ exitCode' = 0
  /\ inv' = [NoInv EXCEPT !.cmd = "config clear"]
  /\ pc' = "exited"
  /\ request' = NoRequest
  /\ requests' = 0
  /\ response' = NoResponse
  /\ opResult' = NoResult
  /\ UNCHANGED now

\* a read subcommand, up to the point where it either has exited or waits
\* for axios: requireAuth(), then the API operation's apiRequest
ReadCommand(i) ==
  /\ CanStart
  /\ inv' = i
  /\ response' = NoResponse
  /\ writes' = 0
  /\ IF ~requireAuth(store, now)
     THEN /\ stderr' = <<ErrLine(MsgNotConfigured)>>
          /\ stdout' = GuidanceLines
          /\ exitCode' = 1
          /\ pc' = "exited"
          /\ request' = NoRequest
          /\ requests' = 0
          /\ opResult' = NoResult
     ELSE IF apiRequestThrows(store)
     THEN \* the action's catch block
          /\ stderr' = <<ErrLine(MsgNotConfiguredApi)>>
          /\ stdout' = <<>>
          /\ exitCode' = 1
          /\ pc' = "exited"
          /\ request' = NoRequest
          /\ requests' = 0
          /\ opResult' = Thrown(MsgNotConfiguredApi)
     ELSE /\ opResult' = NoResult
          /\ request' = OpRequest(store, ApiOp(i.cmd), i.id1, i.id2,
                                  i.from, i.to)
          /\ requests' = 1
          /\ stdout' = <<>>
          /\ stderr' = <<>>
          /\ exitCode' = Running
          /\ pc' = "awaiting"
  /\ UNCHANGED <<store, now>>

Fail_Retry429(error) ==
  IF error.kind = "response" /\ error.status = 429
  THEN /\ requests' = requests + 1
       /\ UNCHANGED <<store, now, pc, inv, request, response, opResult,
                      writes, stdout, stderr, exitCode>>
  ELSE /\ response' = error
       /\ opResult' = Thrown(handleApiError(error))
       /\ stderr' = <<ErrLine(handleApiError(error))>>
       /\ stdout' = <<>>
       /\ exitCode' = 1
       /\ pc' = "exited"
       /\ UNCHANGED <<store, now, inv, request, requests, writes>>

Fail_RendersNotice(error) ==
  /\ response' = error
  /\ opResult' = Thrown(handleApiError(error))
  /\ stderr' = <<ErrLine(handleApiError(error))>>
  /\ stdout' = <<<<"notice", "No results found.">>>>
  /\ exitCode' = 1
  /\ pc' = "exited"
  /\ UNCHANGED <<store, now, inv, request, requests, writes>>

Fail_ClearsOn401(error) ==
  /\ response' = error
  /\ opResult' = Thrown(handleApiError(error))
  /\ stderr' = <<ErrLine(handleApiError(error))>>
  /\ stdout' = <<>>
  /\ exitCode' = 1
  /\ pc' = "exited"
  /\ store' = IF error.kind = "response" /\ error.status = 401
              THEN DefaultStore ELSE store
  /\ writes' = IF error.kind = "response" /\ error.status = 401
               THEN writes + 1 ELSE writes
  /\ UNCHANGED <<now, inv, request, requests>>

\* the action's catch block: printError(error.message); process.exit(1)
Fail(error) ==
  /\ response' = error
  /\ opResult' = Thrown(handleApiError(error))
  /\ stderr' = <<ErrLine(handleApiError(error))>>
  /\ stdout' = <<>>
  /\ exitCode' = 1
  /\ pc' = "exited"
  /\ UNCHANGED <<store, now, inv, request, requests, writes>>

\* the remote answers 2xx: the operation unwraps the envelope and the
\* action renders what it returned
RespondOk(status, body) ==
  /\ pc = "awaiting"
  /\ opResult' = Returned(Unwrap(ApiOp(inv.cmd), body))
  /\ LET r == Render(inv.cmd, inv.json, Unwrap(ApiOp(inv.cmd), body),
                     inv.id1, inv.id2)
     IN /\ stdout' = r.out
        /\ stderr' = r.err
        /\ exitCode' = r.code
  /\ response' = [NoResponse EXCEPT !.kind = "ok", !.status = status,
                                    !.body = body]
  /\ pc' = "exited"
  /\ UNCHANGED <<store, now, inv, request, requests, writes>>

\* the remote answers with a status outside 2xx
RespondError(status, data) ==
  /\ pc = "awaiting"
  /\ Fail([NoResponse EXCEPT !.kind = "response", !.status = status,
                             !.err = data])

\* the request was sent and no response came
NoResponseReceived ==
  /\ pc = "awaiting"
  /\ Fail([NoResponse EXCEPT !.kind = "request"])

\* axios raised an error before the request left the process
RequestSetupFails ==
  /\ pc = "awaiting"
  /\ Fail([NoResponse EXCEPT !.kind = "setup", !.message = MsgSetup])

\* the exited process is gone: its output and exit status with it, the
\* settings file stays
ProcessGone ==
  /\ pc = "exited"
  /\ pc' = "idle"
  /\ inv' = NoInv
  /\ request' = NoRequest
  /\ requests' = 0
  /\ response' = NoResponse
  /\ opResult' = NoResult
  /\ writes' = 0
  /\ stdout' = <<>>
  /\ stderr' = <<>>
  /\ exitCode' = Running
  /\ UNCHANGED <<store, now>>

Next ==
  \/ Tick
  \/ ProcessGone
  \/ \E token \in TokenOpts, expiry \in ExpiryOpts : ConfigSet(token, expiry)
  \/ ConfigShow
  \/ ConfigClear
  \/ \E i \in ReadInvs : ReadCommand(i)
  \/ \E status \in OkStatuses, body \in Envelopes : RespondOk(status, body)
  \/ \E status \in ErrorStatuses, data \in ErrorBodies :
       RespondError(status, data)
  \/ NoResponseReceived
  \/ RequestSetupFails

Spec == Init /\ [][Next]_vars

----------------------------------------------------------------------------
(* The API client on its own: the 16 operations called directly, without   *)
(* the dispatcher's requireAuth, on a store with or without a token.  inv  *)
(* holds the arguments of the call, the operation named by the subcommand  *)
(* that calls it; pc is "awaiting" while axios runs and "exited" once the  *)
(* operation has returned or thrown.                                       *)

ApiStores ==
  {[accessToken |-> t, tokenExpiry |-> Num(0)] : t \in {"", "tokA", "tokB"}}

ApiInit ==
  /\ store \in ApiStores
  /\ now = 0
  /\ pc = "idle"
  /\ inv = NoInv
  /\ request = NoRequest
  /\ requests = 0
  /\ response = NoResponse
  /\ opResult = NoResult
  /\ writes = 0
  /\ stdout = <<>>
  /\ stderr = <<>>
  /\ exitCode = Running

\* an operation is called: apiRequest reads the token, throws when there is
\* none, and otherwise builds the config and calls axios
ApiCall(i) ==
  /\ pc = "idle"
  /\ inv' = i
  /\ IF apiRequestThrows(store)
     THEN /\ opResult' = Thrown(MsgNotConfiguredApi)
          /\ request' = NoRequest
          /\ requests' = 0
          /\ pc' = "exited"
     ELSE /\ opResult' = NoResult
          /\ request' = OpRequest(store, ApiOp(i.cmd), i.id1, i.id2,
                                  i.from, i.to)
          /\ requests' = 1
          /\ pc' = "awaiting"
  /\ UNCHANGED <<store, now, response, writes, stdout, stderr, exitCode>>

\* axios resolves: the operation returns the unwrapped payload
ApiReturn(status, body) ==
  /\ pc = "awaiting"
  /\ response' = [NoResponse EXCEPT !.kind = "ok", !.status = status,
                                    !.body = body]
  /\ opResult' = Returned(Unwrap(ApiOp(inv.cmd), body))
  /\ pc' = "exited"
  /\ UNCHANGED <<store, now, inv, request, requests, writes, stdout, stderr,
                 exitCode>>

\* axios rejects: handleApiError throws
ApiThrow(error) ==
  /\ pc = "awaiting"
  /\ response' = error
  /\ opResult' = Thrown(handleApiError(error))
  /\ pc' = "exited"
  /\ UNCHANGED <<store, now, inv, request, requests, writes, stdout, stderr,
                 exitCode>>

\* the caller has the outcome and may call again
ApiDone ==
  /\ pc = "exited"
  /\ pc' = "idle"
  /\ inv' = NoInv
  /\ request' = NoRequest
  /\ requests' = 0
  /\ response' = NoResponse
  /\ opResult' = NoResult
  /\ UNCHANGED <<store, now, writes, stdout, stderr, exitCode>>

ApiNext ==
  \/ \E i \in ReadInvs : ApiCall(i)
  \/ \E status \in OkStatuses, body \in Envelopes : ApiReturn(status, body)
  \/ \E status \in ErrorStatuses, data \in ErrorBodies :
       ApiThrow([NoResponse EXCEPT !.kind = "response", !.status = status,
                                   !.err = data])
  \/ ApiThrow([NoResponse EXCEPT !.kind = "request"])
  \/ ApiThrow([NoResponse EXCEPT !.kind = "setup", !.message = MsgSetup])
  \/ ApiDone

ApiSpec == ApiInit /\ [][ApiNext]_vars

----------------------------------------------------------------------------
(* Properties *)

\* a step in which a process starts
Starts == pc = "idle" /\ pc' # "idle"

\* the process exited on requireAuth's error, having called nothing
LocalTokenError ==
  /\ pc = "exited"
  /\ exitCode = 1
  /\ stderr = <<ErrLine(MsgNotConfigured)>>
  /\ requests = 0
  /\ request = NoRequest

C2_ValidTokenRequired ==
  [][(Starts /\ inv'.cmd \in ReadCmds /\ ~hasValidToken(store, now))
       => (pc' = "exited" /\ exitCode' = 1 /\ stderr' # <<>>
           /\ requests' = 0)]_vars

\* C2, amended: a read subcommand started while isConfigured() is false
\* exits with status 1, the error line and the guidance, and makes no
\* network call; started while isConfigured() is true it makes its network
\* call, whatever the expiry.
C2_ConfiguredTokenRequired ==
  [][(Starts /\ inv'.cmd \in ReadCmds)
       => IF isConfigured(store)
          THEN pc' = "awaiting" /\ requests' = 1 /\ exitCode' = Running
          ELSE /\ pc' = "exited"
               /\ exitCode' = 1
               /\ stderr' = <<ErrLine(MsgNotConfigured)>>
               /\ stdout' = GuidanceLines
               /\ requests' = 0]_vars

C2_Witness ==
  /\ pc = "awaiting"
  /\ requests = 1
  /\ isConfigured(store)
  /\ ~hasValidToken(store, now)

\* C3: hasValidToken() is true exactly when the stored token is non-empty
\* and the stored expiry is strictly greater than now + 60000; an expiry of
\* exactly now + 60000, and the default expiry 0, give false.
C3_HasValidToken ==
  /\ hasValidToken(store, now)
       <=> (store.accessToken # "" /\ ~store.tokenExpiry.nan
            /\ store.tokenExpiry.n > now + 60000)
  /\ store.tokenExpiry = Num(now + 60000) => ~hasValidToken(store, now)
  /\ store.tokenExpiry = Num(0) => ~hasValidToken(store, now)

C3_Witness ==
  /\ store.accessToken # ""
  /\ store.tokenExpiry = Num(now + 60000)
  /\ ~hasValidToken(store, now)

\* C4: isConfigured() is true exactly when the stored token is non-empty,
\* whatever the expiry; hasValidToken() implies isConfigured().
C4_IsConfigured ==
  /\ isConfigured(store) <=> store.accessToken # ""
  /\ \A e \in {Num(0), Num(now), Num(now + 60001), NaN} :
       isConfigured([store EXCEPT !.tokenExpiry = e]) = isConfigured(store)
  /\ hasValidToken(store, now) => isConfigured(store)

\* token set, expiry in the past: configured and not valid
C4_Witness ==
  /\ store.accessToken # ""
  /\ store.tokenExpiry.n > 0
  /\ store.tokenExpiry.n < now
  /\ isConfigured(store)
  /\ ~hasValidToken(store, now)

\* the message the claim gives for a non-2xx status
StatusMessage(status, data) ==
  IF status = 401 THEN <<"Authentication failed. Check your access token.">>
  ELSE IF status = 403 THEN <<"Access forbidden. Check your API permissions.">>
  ELSE IF status = 404 THEN <<"Resource not found.">>
  ELSE IF status = 429
  THEN <<"Rate limit exceeded. Please wait before retrying.">>
  ELSE <<"API Error", status,
         IF data.message # Undefined THEN <<data.message>>
         ELSE IF data.error # Undefined THEN <<data.error>>
         ELSE <<"{", "}">>>>

\* C5: a non-2xx answer makes the command print exactly one error line, the
\* message given by the status (401, 403, 404, 429, otherwise 'API Error
\* (<status>)' with the remote message), nothing on stdout, and exit 1.
C5_StatusClassification ==
  (pc = "exited" /\ response.kind = "response")
    => /\ stderr = <<ErrLine(StatusMessage(response.status, response.err))>>
       /\ stdout = <<>>
       /\ exitCode = 1

C5_Witness ==
  /\ pc = "exited"
  /\ inv.cmd = "accounts get"
  /\ response.kind = "response"
  /\ response.status = 404
  /\ stderr = <<ErrLine(MsgNotFound)>>
  /\ exitCode = 1

\* C6: a process makes at most one network request; after any failed
\* request (non-2xx, no response, request set-up error) it has exited with
\* code 1 having made exactly one, and after a 429 it has printed the
\* rate-limit message.
C6_AtMostOneRequest ==
  /\ requests <= 1
  /\ response.kind \in {"response", "request", "setup"}
       => pc = "exited" /\ exitCode = 1 /\ requests = 1 /\ Len(stderr) = 1
  /\ (response.kind = "response" /\ response.status = 429)
       => stderr = <<ErrLine(MsgRateLimit)>>

C6_Witness ==
  /\ pc = "exited"
  /\ response.kind = "response"
  /\ response.status = 429
  /\ requests = 1
  /\ exitCode = 1
  /\ stderr = <<ErrLine(MsgRateLimit)>>

\* C7, as stated: every read invocation with a configured token whose
\* request received a 2xx response exits 0, in table mode and in --json
\* mode, also when the looked-up record is absent.
C7_SuccessExitsZero ==
  (pc = "exited" /\ inv.cmd \in ReadCmds /\ response.kind = "ok")
    => exitCode = 0

\* the request carries the query parameter name
HasParam(req, name) == \E p \in req.params : p[1] = name

\* C8, as stated: the request of a date-ranged call carries
\* fromBookingDateTime exactly when --from was given and toBookingDateTime
\* exactly when --to was given.
C8_ParamIffSupplied ==
  (pc = "awaiting" /\ ApiOp(inv.cmd) \in DatedOps)
    => /\ HasParam(request, "fromBookingDateTime") <=> inv.from # Undefined
       /\ HasParam(request, "toBookingDateTime") <=> inv.to # Undefined

\* C8, amended: the request of a date-ranged call carries
\* fromBookingDateTime exactly when --from was given a non-empty value and
\* toBookingDateTime exactly when --to was given a non-empty value, each
\* with the value given, and no other query parameter.
C8_ParamIffNonEmpty ==
  (pc = "awaiting" /\ ApiOp(inv.cmd) \in DatedOps)
    => /\ HasParam(request, "fromBookingDateTime")
            <=> (inv.from # Undefined /\ inv.from # "")
       /\ HasParam(request, "toBookingDateTime")
            <=> (inv.to # Undefined /\ inv.to # "")
       /\ \A p \in request.params :
            \/ p = <<"fromBookingDateTime", inv.from>>
            \/ p = <<"toBookingDateTime", inv.to>>

\* --from alone: only fromBookingDateTime is sent
C8_Witness ==
  /\ pc = "awaiting"
  /\ inv.cmd = "transactions list"
  /\ inv.from = "2024-01-01"
  /\ inv.to = Undefined
  /\ request.params = {<<"fromBookingDateTime", "2024-01-01">>}

\* the 2xx answer to a list operation whose envelope array is empty
EmptyListAnswer ==
  /\ pc = "exited"
  /\ response.kind = "ok"
  /\ ApiOp(inv.cmd) \notin SingularOps
  /\ response.body.hasData
  /\ response.body.hasArr
  /\ response.body.arr = <<>>

\* C9: for a list operation answered 2xx with an empty envelope array, the
\* command prints only the 'no results' notice in table mode and the empty
\* array literal in --json mode, and exits 0.
C9_EmptyList ==
  EmptyListAnswer
    => /\ exitCode = 0
       /\ stderr = <<>>
       /\ stdout = IF inv.json THEN <<<<"json", <<"[", "]">>>>>>
                   ELSE <<<<"notice", "No results found.">>>>

C9_Witness ==
  /\ EmptyListAnswer
  /\ ~inv.json
  /\ stdout = <<<<"notice", "No results found.">>>>
  /\ exitCode = 0

\* the records of a value an API operation returned
RowsOf(value) ==
  IF value[1] = "array" THEN {value[2][i] : i \in 1..Len(value[2])}
  ELSE IF value[1] = "object" THEN {value[2]}
  ELSE {}

\* the tokens JSON text may hold for a value: punctuation, null, the field
\* names and the field values of the value's own records
RawTokens(value) ==
  {"{", "}", "[", "]", "null"} \cup Keys
  \cup {row[k] : row \in RowsOf(value), k \in Keys \ {"Amount"}}

\* C10: in --json mode a read subcommand answered 2xx prints one JSON text,
\* the serialisation of the value its API operation extracted from the
\* envelope, and the text holds nothing but that value's own field names
\* and field values.
C10_JsonIsExtractedValue ==
  (pc = "exited" /\ response.kind = "ok" /\ inv.json)
    => LET value == Unwrap(ApiOp(inv.cmd), response.body)
       IN /\ Len(stdout) = 1
          /\ stdout[1][1] = "json"
          /\ stdout[1][2] = JsonStringify(value)
          /\ \A i \in 1..Len(stdout[1][2]) :
               stdout[1][2][i] \in RawTokens(value) \ {Undefined}
          /\ exitCode = 0

\* a transaction whose Amount object has no Amount field, printed as JSON
C10_Witness ==
  /\ pc = "exited"
  /\ response.kind = "ok"
  /\ inv.json
  /\ inv.cmd = "accounts transactions"
  /\ response.body.hasArr
  /\ Len(response.body.arr) > 0
  /\ response.body.arr[1] = RowNoAmount
  /\ Len(stdout) = 1

\* C11: on a 2xx answer a list operation returns the array under its plural
\* name in Data, and the empty array when Data or the array is missing; a
\* singular operation (getAccount, getTransaction, getStatement) returns the
\* array's first element, and null when Data, the array or its first element
\* is missing.
C11_Unwrapping ==
  (pc = "exited" /\ response.kind = "ok")
    => LET b == response.body
           there == b.hasData /\ b.hasArr
       IN /\ opResult.kind = "value"
          /\ opResult.value =
               IF ApiOp(inv.cmd) \in {"getAccount", "getTransaction",
                                      "getStatement"}
               THEN IF there /\ b.arr # <<>> THEN <<"object", b.arr[1]>>
                    ELSE <<"null">>
               ELSE <<"array", IF there THEN b.arr ELSE <<>>>>

\* listStatements answered 2xx without the Statement array: the empty array
C11_Witness ==
  /\ pc = "exited"
  /\ response.kind = "ok"
  /\ inv.cmd = "statements list"
  /\ response.body.hasData
  /\ ~response.body.hasArr
  /\ opResult = Returned(<<"array", <<>>>>)

\* C12, as stated: no process writes to the settings store more than once.
C12_AtMostOneWrite == writes <= 1

\* both options of config set were given a value that is written
BothOptionsWritten ==
  /\ inv.cmd = "config set"
  /\ Truthy(inv.token)
  /\ inv.expiry.given
  /\ ~ParseInt(inv.expiry.text).nan

\* C12, amended: a process writes to the settings store at most twice, and
\* twice only when it is config set with both --token and --expiry (one
\* write per option); config clear writes once, and config show and the read
\* subcommands never write.
C12_AtMostOneWritePerOption ==
  /\ writes <= 2
  /\ writes = 2 <=> (pc = "exited" /\ BothOptionsWritten)
  /\ (pc = "exited" /\ inv.cmd = "config clear") => writes = 1
  /\ inv.cmd \in ReadCmds \cup {"config show"} => writes = 0

\* config set --token tokA --expiry 60001 has written twice
C12_Witness ==
  /\ pc = "exited"
  /\ BothOptionsWritten
  /\ writes = 2
  /\ store.accessToken = inv.token
  /\ store.tokenExpiry = ParseInt(inv.expiry.text)

C14_NoTokenNoRequest ==
  [][(pc = "idle" /\ pc' # "idle" /\ store.accessToken = "")
       => /\ pc' = "exited"
          /\ opResult' = Thrown(MsgNotConfiguredApi)
          /\ request' = NoRequest
          /\ requests' = 0]_vars

C14_Witness ==
  /\ pc = "exited"
  /\ store.accessToken = ""
  /\ inv.cmd = "transactions list"
  /\ opResult = Thrown(MsgNotConfiguredApi)
  /\ requests = 0

\* C15: every request is a GET to the base URL followed by the operation's
\* path and carries Authorization: Bearer <token>, the token of the settings
\* store, which is not empty.
C15_GetWithBearer ==
  requests > 0
    => /\ request.method = "GET"
       /\ request.url
            = <<"https://api.openbanking.org.uk/open-banking/v3.1/aisp">>
              \o Endpoint(ApiOp(inv.cmd), inv.id1, inv.id2)
       /\ request.authorization = <<"Bearer", store.accessToken>>
       /\ store.accessToken # ""

C15_Witness ==
  /\ pc = "awaiting"
  /\ inv.cmd = "statements transactions"
  /\ request.method = "GET"
  /\ request.authorization = <<"Bearer", "tokB">>
  /\ request.url = <<BASE_URL, "accounts", "acc-22289", "statements", "id-7",
                     "transactions">>

\* the messages handleApiError gives for an HTTP status
IsStatusMessage(msg) ==
  \/ msg \in {MsgAuthFailed, MsgForbidden, MsgNotFound, MsgRateLimit}
  \/ msg[1] = "API Error"

\* C16: a request that got no response is reported with the 'No response
\* from Open Banking API' message, an error raised before the request left
\* the process with its own message; the two differ, neither is one of the
\* HTTP-status messages, and both end the command with exit 1.
C16_TransportVsSetup ==
  /\ (pc = "exited" /\ response.kind = "request")
       => /\ stderr = <<ErrLine(<<"No response from Open Banking API. Check your internet connection.">>)>>
          /\ exitCode = 1
  /\ (pc = "exited" /\ response.kind = "setup")
       => /\ stderr = <<ErrLine(response.message)>>
          /\ stderr # <<ErrLine(MsgNoResponse)>>
          /\ exitCode = 1
  /\ (pc = "exited" /\ response.kind \in {"request", "setup"})
       => ~IsStatusMessage(stderr[1][2])

C16_Witness ==
  /\ pc = "exited"
  /\ response.kind = "setup"
  /\ stderr = <<ErrLine(MsgSetup)>>
  /\ exitCode = 1

\* a line of a rendered result: JSON text, a table line, a detail line
IsRenderedLine(line) ==
  line \notin {GuidanceLines[1], GuidanceLines[2]}

\* C17: a read subcommand checks the token before it calls the network,
\* writes nothing while the call is in flight, renders on stdout only after
\* a 2xx answer, and after a failed call has written nothing on stdout, one
\* error line on stderr, and exited 1.
C17_Order ==
  /\ requests > 0 => isConfigured(store)
  /\ pc = "awaiting" => stdout = <<>> /\ stderr = <<>> /\ exitCode = Running
  /\ (inv.cmd \in ReadCmds /\ \E n \in 1..Len(stdout) : IsRenderedLine(stdout[n]))
       => pc = "exited" /\ response.kind = "ok" /\ requests = 1
  /\ (pc = "exited" /\ response.kind \in {"response", "request", "setup"})
       => stdout = <<>> /\ Len(stderr) = 1 /\ exitCode = 1

\* a table rendered after the answer
C17_Witness ==
  /\ pc = "exited"
  /\ inv.cmd = "accounts list"
  /\ ~inv.json
  /\ response.kind = "ok"
  /\ requests = 1
  /\ Len(stdout) = 4
  /\ stdout[1][1] = "header"
  /\ exitCode = 0

\* C18: the settings store changes only in a step of config set or config
\* clear; config show and the read subcommands, whether they succeed, fail
\* the token check or fail on the API or the transport, leave both keys as
\* they were and write nothing.
C18_OnlyConfigWrites ==
  [][/\ store' # store
          => Starts /\ inv'.cmd \in {"config set", "config clear"}
     /\ inv'.cmd \in ReadCmds \cup {"config show"}
          => store' = store /\ writes' = 0]_vars

\* a read subcommand has failed on a 401 and the token is still stored
C18_Witness ==
  /\ pc = "exited"
  /\ inv.cmd \in ReadCmds
  /\ response.kind = "response"
  /\ response.status = 401
  /\ store.accessToken = "tokA"
  /\ store.tokenExpiry = Num(60001)
  /\ writes = 0

\* C19: config set without --expiry leaves the stored expiry as it was,
\* without --token the stored token as it was, and without both the whole
\* store, printing an error; a key whose option is given a value takes that
\* value.
C19_SetOnlyGivenKeys ==
  [][(Starts /\ inv'.cmd = "config set")
       => /\ ~inv'.expiry.given => store'.tokenExpiry = store.tokenExpiry
          /\ inv'.token = Undefined => store'.accessToken = store.accessToken
          /\ (~inv'.expiry.given /\ inv'.token = Undefined)
               => /\ store' = store
                  /\ stderr' = <<ErrLine(<<"No options provided. Use --token or --expiry">>)>>
          /\ inv'.token \notin {Undefined, ""}
               => store'.accessToken = inv'.token
          /\ (inv'.expiry.given /\ ~ParseInt(inv'.expiry.text).nan)
               => store'.tokenExpiry = ParseInt(inv'.expiry.text)]_vars

\* the token was replaced after its expiry passed: still not valid
C19_Witness ==
  /\ pc = "exited"
  /\ inv.cmd = "config set"
  /\ inv.token = "tokB"
  /\ ~inv.expiry.given
  /\ store.accessToken = "tokB"
  /\ store.tokenExpiry = Num(1)
  /\ now > 1
  /\ ~hasValidToken(store, now)

====
